---- MODULE Spec2Model ----
(***************************************************************************)
(* A model of kilo.c: the raw-mode terminal controller, the key decoder,   *)
(* the line buffer, the screen renderer and the editor session.            *)
(*                                                                         *)
(* Bytes are their integer codes.  A read() on standard input yields one   *)
(* byte or one of the outcomes RD_TIMEOUT (0 bytes within VTIME),          *)
(* RD_EAGAIN (-1, errno EAGAIN) and RD_ERROR (-1, any other errno).  The   *)
(* process position pc is the call the process is at; every blocking call  *)
(* on the terminal or the file is one step.  Memory allocation is taken    *)
(* to succeed.                                                             *)
(***************************************************************************)
EXTENDS Integers, Sequences, FiniteSets, TLC

(* ------------------------------ bounds -------------------------------- *)
MaxDim == 3
MaxCursor == 4
MaxRestore == 2
MaxFileLen == 4
SessFileLen == 1
MaxReply == 6

(* -------------------------- bytes of the source ----------------------- *)
ESC == 27
LBRACKET == 91
TILDE == 126
SEMICOLON == 59
LF == 10
CR == 13
CH_0 == 48
CH_9 == 57
CH_A == 65
CH_B == 66
CH_C == 67
CH_D == 68
CH_F == 70
CH_H == 72
CH_O == 79
CH_R == 82
CH_q == 113
CH_MINUS == 45
CH_PLUS == 43
CH_SPACE == 32
CH_TAB == 9
BUF_SIZE == 32


\* the control-key mask one bit too wide (0x3f)
CTRL_KEY_WIDE(k) == k % 64

CTRL_KEY(k) == k % 32

ARROW_LEFT == 1000
ARROW_RIGHT == ARROW_LEFT + 1
ARROW_UP == ARROW_LEFT + 2
ARROW_DOWN == ARROW_LEFT + 3
DEL_KEY == ARROW_LEFT + 4
HOME_KEY == ARROW_LEFT + 5
END_KEY == ARROW_LEFT + 6
PAGE_UP == ARROW_LEFT + 7
PAGE_DOWN == ARROW_LEFT + 8

Digits == CH_0 .. CH_9

CLEAR_SCREEN == <<ESC, LBRACKET, 50, 74>>
CURSOR_HOME == <<ESC, LBRACKET, CH_H>>
HIDE_CURSOR == <<ESC, LBRACKET, 63, 50, 53, 108>>
SHOW_CURSOR == <<ESC, LBRACKET, 63, 50, 53, 104>>
ERASE_LINE == <<ESC, LBRACKET, 75>>
CRLF == <<CR, LF>>
PROBE_CORNER == <<ESC, LBRACKET, 57, 57, 57, CH_C, ESC, LBRACKET, 57, 57, 57, CH_B>>
QUERY_CURSOR == <<ESC, LBRACKET, 54, 110>>
TILDE_ROW == <<TILDE>>
SPACE_PAD == <<CH_SPACE>>

\* "Aniket's Editor -- version " KILO_VERSION, as snprintf formats it
WELCOME ==
  <<65, 110, 105, 107, 101, 116, 39, 115, 32, 69, 100, 105, 116, 111, 114, 32,
    45, 45, 32, 118, 101, 114, 115, 105, 111, 110, 32, 48, 46, 48, 46, 49>>

(* ----------------------- outcomes of read() --------------------------- *)
RD_TIMEOUT == -1
RD_EAGAIN == -2
RD_ERROR == -3
ReadFailures == {RD_TIMEOUT, RD_EAGAIN, RD_ERROR}

(* ------------------------- input alphabets ---------------------------- *)
\* a letter of a file and a literal key byte, standing for every other byte
CH_a == CH_A + 32
CH_x == CH_A + 55
\* every byte editorReadKey distinguishes, with one literal and Ctrl+Q
KeyBytes ==
  {ESC, LBRACKET, CH_O, TILDE, CH_A, CH_B, CH_C, CH_D, CH_H, CH_F,
   CTRL_KEY(CH_q), CH_x} \cup Digits
\* the bytes the session needs to produce every key event
SessBytes ==
  {ESC, LBRACKET, CH_O, TILDE, CH_A, CH_B, CH_C, CH_D, CH_H, CH_F,
   CTRL_KEY(CH_q), CH_x, CH_0 + 3, CH_0 + 5, CH_0 + 6}
FileBytes == {CH_a, LF, CR}

SeqsUpTo(S, n) == UNION {[1..k -> S] : k \in 0..n}

VARIABLES
  pc,            \* position of the process
  cx, cy,        \* E.cx, E.cy
  screenrows,    \* E.screenrows
  screencols,    \* E.screencols
  numrows,       \* E.numrows
  row,           \* E.row: sequence of [size, chars]
  orig_termios,  \* TRUE once tcgetattr has stored E.orig_termios
  tty,           \* the terminal's discipline: "cooked" or "raw"
  atexitFns,     \* TRUE while disableRawMode is registered and not yet called
  restores,      \* calls of tcsetattr(&E.orig_termios) made by disableRawMode
  exitStatus,    \* argument of the last exit() call, -1 before any
  perr,          \* argument of the last die() call (what perror prints), "" before any
  wr,            \* the write() calls on standard output issued by the last step
  hasArg,        \* argc >= 2
  fileText,      \* the bytes of the file argv[1] names
  fpos,          \* bytes of the file getline has consumed
  key,           \* value returned by the last editorReadKey
  consumed,      \* bytes the current editorReadKey call has read
  lastRead,      \* outcome of the last read() on standard input
  query          \* what getWindowSize got from the terminal: the ioctl result,
                 \* whether its two writes completed, the reply it read

vars == <<pc, cx, cy, screenrows, screencols, numrows, row, orig_termios, tty,
          atexitFns, restores, exitStatus, perr, wr, hasArg, fileText, fpos,
          key, consumed, lastRead, query>>

Evars == <<cx, cy, screenrows, screencols, numrows, row>>
termVars == <<orig_termios, tty, atexitFns, restores>>
fileVars == <<hasArg, fileText, fpos>>
keyVars == <<key, consumed, lastRead>>

Running == {"render", "readkey", "seq0", "seq1", "seq2", "process"}

(* ----------------------- window-size query inputs --------------------- *)
\* ioctl(TIOCGWINSZ) returned -1
IoctlFailed == [ok |-> FALSE, ws_row |-> 0, ws_col |-> 0]

\* the part of the terminal's answers that getWindowSize consults: the second
\* write is issued only after the first completed, the reply is read only
\* after the second completed, and neither when ioctl reports a width
Consulted(io, wok1, wok2, resp) ==
  LET fb == ~io.ok \/ io.ws_col = 0
  IN  [io |-> io, wok1 |-> fb /\ wok1, wok2 |-> fb /\ wok1 /\ wok2,
       resp |-> IF fb /\ wok1 /\ wok2 THEN resp ELSE <<>>]

\* only the answers getWindowSize consults are drawn
Drawn(io, wok1, wok2, resp) ==
  Consulted(io, wok1, wok2, resp)
    = [io |-> io, wok1 |-> wok1, wok2 |-> wok2, resp |-> resp]

\* before the query
NoQuery == Consulted(IoctlFailed, FALSE, FALSE, <<>>)

\* a query whose primary strategy reported rows r and columns c
PrimaryQuery(r, c) ==
  Consulted([ok |-> TRUE, ws_row |-> r, ws_col |-> c], FALSE, FALSE, <<>>)
(* ------------------------------ die, exit ----------------------------- *)
\* exit(code) called outside the exit handlers
Exit(code) ==
  /\ exitStatus' = code
  /\ pc' = "exiting"


\* die(s) exiting with status 0
DieStatusZero(s, before) ==
  /\ wr' = before \o <<CLEAR_SCREEN, CURSOR_HOME>>
  /\ perr' = s
  /\ Exit(0)

\* die(s) after the step has already issued the writes `before`
Die(s, before) ==
  /\ wr' = before \o <<CLEAR_SCREEN, CURSOR_HOME>>
  /\ perr' = s
  /\ Exit(1)

Init ==
  /\ pc = "start"
  /\ cx = 0 /\ cy = 0 /\ screenrows = 0 /\ screencols = 0
  /\ numrows = 0 /\ row = <<>>
  /\ orig_termios = FALSE /\ tty = "cooked" /\ atexitFns = FALSE /\ restores = 0
  /\ exitStatus = -1 /\ perr = "" /\ wr = <<>>
  /\ hasArg \in BOOLEAN
  /\ fileText \in SeqsUpTo(FileBytes, SessFileLen)
  /\ (~hasArg => fileText = <<>>)
  /\ fpos = 0
  /\ key = 0 /\ consumed = <<>> /\ lastRead = RD_TIMEOUT
  /\ query = NoQuery

(* ---------------------------- enableRawMode --------------------------- *)
EnableRawMode ==
  /\ pc = "start"
  /\ \E getOk \in BOOLEAN :
       IF ~getOk
       THEN /\ Die("tcgetattr", <<>>)
            /\ UNCHANGED termVars
       ELSE /\ orig_termios' = TRUE
            /\ atexitFns' = TRUE
            /\ UNCHANGED restores
            /\ \E setOk \in BOOLEAN :
                 IF setOk
                 THEN /\ tty' = "raw"
                      /\ pc' = "init"
                      /\ wr' = <<>>
                      /\ UNCHANGED <<exitStatus, perr>>
                 ELSE /\ Die("tcsetattr", <<>>)
                      /\ UNCHANGED tty
  /\ UNCHANGED <<query, Evars, fileVars, keyVars>>

(* ------------------- exit(): the atexit handler ----------------------- *)
\* exit() calls disableRawMode.  When tcsetattr fails there, die() calls
\* exit() from inside the handler, which is undefined: the C library either
\* goes on with the handlers that are left (none) or calls the handler again.
DisableRawMode ==
  /\ pc = "exiting"
  /\ atexitFns
  /\ restores < MaxRestore
  /\ restores' = restores + 1
  /\ \E ok \in BOOLEAN :
       IF ok
       THEN /\ tty' = "cooked"
            /\ atexitFns' = FALSE
            /\ wr' = <<>>
            /\ UNCHANGED <<pc, exitStatus, perr>>
       ELSE /\ wr' = <<CLEAR_SCREEN, CURSOR_HOME>>
            /\ perr' = "tcsetattr"
            /\ exitStatus' = 1
            /\ atexitFns' \in {FALSE, restores + 1 < MaxRestore}
            /\ UNCHANGED <<pc, tty>>
  /\ UNCHANGED <<query, orig_termios, Evars, fileVars, keyVars>>

\* no handler is left: the process ends with exitStatus
Terminate ==
  /\ pc = "exiting"
  /\ ~atexitFns
  /\ pc' = "exited"
  /\ wr' = <<>>
  /\ UNCHANGED <<query, Evars, termVars, exitStatus, perr, fileVars, keyVars>>

(* ----------------------------- getWindowSize -------------------------- *)
WhiteSpace == {CH_SPACE, CH_TAB, LF, 11, 12, CR}

\* the bytes of s from position i on (1-based), <<>> past the end
From(s, i) == IF i > Len(s) THEN <<>> ELSE SubSeq(s, i, Len(s))

RECURSIVE SkipSpace(_, _)
SkipSpace(s, i) ==
  IF i <= Len(s) /\ s[i] \in WhiteSpace THEN SkipSpace(s, i + 1) ELSE i

RECURSIVE ScanDigits(_, _, _)
\* the decimal digits of s from i on: [val, next]
ScanDigits(s, i, acc) ==
  IF i <= Len(s) /\ s[i] \in Digits
  THEN ScanDigits(s, i + 1, acc * 10 + (s[i] - CH_0))
  ELSE [val |-> acc, next |-> i]

\* sscanf's %d at position i of s: [ok, val, next]
ScanInt(s, i) ==
  LET j == SkipSpace(s, i)
      neg == j <= Len(s) /\ s[j] = CH_MINUS
      k == IF j <= Len(s) /\ s[j] \in {CH_MINUS, CH_PLUS} THEN j + 1 ELSE j
      d == ScanDigits(s, k, 0)
  IN  IF d.next = k
      THEN [ok |-> FALSE, val |-> 0, next |-> i]
      ELSE [ok |-> TRUE, val |-> IF neg THEN 0 - d.val ELSE d.val, next |-> d.next]

\* sscanf(s, "%d;%d", rows, cols): [n, rows, cols], rows0 and cols0 where unassigned
Sscanf2(s, rows0, cols0) ==
  LET a == ScanInt(s, 1)
  IN  IF ~a.ok
      THEN [n |-> 0, rows |-> rows0, cols |-> cols0]
      ELSE IF ~(a.next <= Len(s) /\ s[a.next] = SEMICOLON)
           THEN [n |-> 1, rows |-> a.val, cols |-> cols0]
           ELSE LET b == ScanInt(s, a.next + 1)
                IN  IF ~b.ok
                    THEN [n |-> 1, rows |-> a.val, cols |-> cols0]
                    ELSE [n |-> 2, rows |-> a.val, cols |-> b.val]

RECURSIVE ReadReply(_, _)
\* the read loop of getCursorPosition on the reply resp (after its last byte
\* the read times out): the bytes stored in buf before the terminating NUL
ReadReply(resp, i) ==
  IF i >= BUF_SIZE - 1 \/ i >= Len(resp) \/ resp[i + 1] = CH_R
  THEN SubSeq(resp, 1, i)
  ELSE ReadReply(resp, i + 1)

\* getCursorPosition: [ret, rows, cols, writes]
getCursorPosition(wok, resp, rows0, cols0) ==
  IF ~wok
  THEN [ret |-> -1, rows |-> rows0, cols |-> cols0, writes |-> <<QUERY_CURSOR>>]
  ELSE LET buf == ReadReply(resp, 0)
       IN  IF Len(buf) < 2 \/ buf[1] # ESC \/ buf[2] # LBRACKET
           THEN [ret |-> -1, rows |-> rows0, cols |-> cols0,
                 writes |-> <<QUERY_CURSOR>>]
           ELSE LET r == Sscanf2(From(buf, 3), rows0, cols0)
                IN  [ret |-> IF r.n = 2 THEN 0 ELSE -1, rows |-> r.rows,
                     cols |-> r.cols, writes |-> <<QUERY_CURSOR>>]

\* getWindowSize without the test of ws.ws_col: a width of 0 is a result
getWindowSizeNoWidthTest(io, wok1, wok2, resp, rows0, cols0) ==
  IF ~io.ok
  THEN IF ~wok1
       THEN [ret |-> -1, rows |-> rows0, cols |-> cols0,
             writes |-> <<PROBE_CORNER>>]
       ELSE LET g == getCursorPosition(wok2, resp, rows0, cols0)
            IN  [g EXCEPT !.writes = <<PROBE_CORNER>> \o g.writes]
  ELSE [ret |-> 0, rows |-> io.ws_row, cols |-> io.ws_col, writes |-> <<>>]

\* getWindowSize: io is the outcome of ioctl(TIOCGWINSZ); wok1 and wok2 say
\* whether the two write() calls of the fallback write all their bytes
getWindowSize(io, wok1, wok2, resp, rows0, cols0) ==
  IF ~io.ok \/ io.ws_col = 0
  THEN IF ~wok1
       THEN [ret |-> -1, rows |-> rows0, cols |-> cols0,
             writes |-> <<PROBE_CORNER>>]
       ELSE LET g == getCursorPosition(wok2, resp, rows0, cols0)
            IN  [g EXCEPT !.writes = <<PROBE_CORNER>> \o g.writes]
  ELSE [ret |-> 0, rows |-> io.ws_row, cols |-> io.ws_col, writes |-> <<>>]

SessIoctl ==
  {IoctlFailed} \cup
  {[ok |-> TRUE, ws_row |-> r, ws_col |-> c] : r \in 0..MaxDim, c \in 0..MaxDim}
\* replies of the terminal to the cursor-position query: none, well-formed,
\* well-formed without the final R, malformed
SessReplies ==
  { <<>>,
    <<ESC, LBRACKET, CH_0 + 2, SEMICOLON, CH_0 + 1, CH_R>>,
    <<ESC, LBRACKET, CH_0 + 1, SEMICOLON, CH_0 + 2>>,
    <<ESC, LBRACKET, CH_0 + 2, CH_R>>,
    <<LBRACKET, CH_0 + 2, SEMICOLON, CH_0 + 2, CH_R>> }

(* ------------------------------ initEditor ---------------------------- *)
\* initEditor, then main's test of argc
InitEditor(IO, REPLIES) ==
  /\ pc = "init"
  /\ cx' = 0 /\ cy' = 0 /\ numrows' = 0 /\ row' = <<>>
  /\ \E resp \in REPLIES, io \in IO, wok1 \in BOOLEAN, wok2 \in BOOLEAN :
       LET g == getWindowSize(io, wok1, wok2, resp, screenrows, screencols)
       IN  /\ Drawn(io, wok1, wok2, resp)
           /\ query' = Consulted(io, wok1, wok2, resp)
           /\ screenrows' = g.rows
           /\ screencols' = g.cols
           /\ IF g.ret = -1
              THEN Die("getWindowSize", g.writes)
              ELSE /\ wr' = g.writes
                   /\ pc' = IF hasArg THEN "fopen" ELSE "render"
                   /\ UNCHANGED <<exitStatus, perr>>
  /\ UNCHANGED <<termVars, fileVars, keyVars>>

(* ------------------------- editorOpen, editorAppendRow ---------------- *)
\* editorAppendRow(s, len) on the row array rows
editorAppendRow(rows, s, len) ==
  Append(rows, [size |-> len, chars |-> SubSeq(s, 1, len)])

RECURSIVE LineEnd(_, _)
\* getline: the position of the last byte of the line that starts after
\* position p of text (the first LF, or the end of the text)
LineEnd(text, p) ==
  IF p + 1 >= Len(text) \/ text[p + 1] = LF THEN p + 1 ELSE LineEnd(text, p + 1)


\* the terminator test of editorOpen made once (if) instead of repeated (while)
StripLenOnce(line, linelen) ==
  IF linelen > 0 /\ (line[linelen] = LF \/ line[linelen] = CR)
  THEN linelen - 1
  ELSE linelen

RECURSIVE StripLen(_, _)
\* the loop of editorOpen that shortens linelen
StripLen(line, linelen) ==
  IF linelen > 0 /\ (line[linelen] = LF \/ line[linelen] = CR)
  THEN StripLen(line, linelen - 1)
  ELSE linelen

\* fopen(filename, "r")
OpenFile ==
  /\ pc = "fopen"
  /\ \E ok \in BOOLEAN :
       IF ok
       THEN /\ pc' = "getline"
            /\ wr' = <<>>
            /\ UNCHANGED <<exitStatus, perr>>
       ELSE Die("fopen", <<>>)
  /\ UNCHANGED <<query, Evars, termVars, fileVars, keyVars>>

\* one iteration of the getline loop of editorOpen
GetLine ==
  /\ pc = "getline"
  /\ fpos < Len(fileText)
  /\ LET e == LineEnd(fileText, fpos)
         line == SubSeq(fileText, fpos + 1, e)
     IN  /\ row' = editorAppendRow(row, line, StripLen(line, Len(line)))
         /\ numrows' = numrows + 1
         /\ fpos' = e
  /\ wr' = <<>>
  /\ UNCHANGED <<query, pc, cx, cy, screenrows, screencols, termVars, exitStatus,
                 perr, hasArg, fileText, keyVars>>

\* getline returns -1 at the end of the file: free, fclose, enter the loop
CloseFile ==
  /\ pc = "getline"
  /\ fpos >= Len(fileText)
  /\ pc' = "render"
  /\ wr' = <<>>
  /\ UNCHANGED <<query, Evars, termVars, exitStatus, perr, fileVars, keyVars>>

(* ------------------------------ append buffer ------------------------- *)
\* abAppend(ab, s, len): the buffer with the first len bytes of s added
abAppend(ab, s, len) == ab \o SubSeq(s, 1, len)

\* C's integer division, which truncates toward zero
CDiv(a, b) == IF a >= 0 THEN a \div b ELSE 0 - ((0 - a) \div b)

RECURSIVE DecDigits(_)
DecDigits(n) ==
  IF n < 10 THEN <<CH_0 + n>> ELSE Append(DecDigits(n \div 10), CH_0 + (n % 10))

\* what snprintf's %d prints for n
Dec(n) == IF n < 0 THEN <<CH_MINUS>> \o DecDigits(0 - n) ELSE DecDigits(n)

(* ------------------------------ editorDrawRows ------------------------ *)
RECURSIVE Spaces(_, _)
\* while (padding--) abAppend(ab, " ", 1)
Spaces(ab, padding) ==
  IF padding = 0 THEN ab ELSE Spaces(abAppend(ab, SPACE_PAD, 1), padding - 1)

\* the welcome branch of editorDrawRows
DrawWelcome(ab) ==
  LET welcomelen == IF Len(WELCOME) > screencols THEN screencols ELSE Len(WELCOME)
      padding == CDiv(screencols - welcomelen, 2)
      ab1 == IF padding # 0 THEN abAppend(ab, TILDE_ROW, 1) ELSE ab
      pad1 == IF padding # 0 THEN padding - 1 ELSE padding
  IN  abAppend(Spaces(ab1, pad1), WELCOME, welcomelen)

\* the body of the loop with the row written whole, not cut to screencols
DrawRowUncut(ab, y) ==
  LET body ==
        IF y >= numrows
        THEN IF numrows = 0 /\ y = CDiv(screenrows, 3)
             THEN DrawWelcome(ab)
             ELSE abAppend(ab, TILDE_ROW, 1)
        ELSE abAppend(ab, row[y + 1].chars, row[y + 1].size)
      erased == abAppend(body, ERASE_LINE, 3)
  IN  IF y < screenrows - 1 THEN abAppend(erased, CRLF, 2) ELSE erased

\* the body of the loop of editorDrawRows for screen row y (0-based)
DrawRow(ab, y) ==
  LET body ==
        IF y >= numrows
        THEN IF numrows = 0 /\ y = CDiv(screenrows, 3)
             THEN DrawWelcome(ab)
             ELSE abAppend(ab, TILDE_ROW, 1)
        ELSE LET len == IF row[y + 1].size > screencols
                        THEN screencols ELSE row[y + 1].size
             IN  abAppend(ab, row[y + 1].chars, len)
      erased == abAppend(body, ERASE_LINE, 3)
  IN  IF y < screenrows - 1 THEN abAppend(erased, CRLF, 2) ELSE erased

RECURSIVE DrawRowsRange(_, _, _)
\* the iterations y = lo .. hi - 1 of the loop of editorDrawRows, in order
\* (the range is halved, and the first half computed before the second is
\* entered, so that a tall screen does not nest deeply)
DrawRowsRange(ab, lo, hi) ==
  IF lo >= hi THEN ab
  ELSE IF hi = lo + 1 THEN DrawRow(ab, lo)
  ELSE LET mid == (lo + hi) \div 2
           first == DrawRowsRange(ab, lo, mid)
       IN  IF Len(first) >= 0 THEN DrawRowsRange(first, mid, hi) ELSE first

editorDrawRows(ab) == DrawRowsRange(ab, 0, screenrows)

(* ---------------------------- editorRefreshScreen --------------------- *)
\* the cursor-position code with the column before the row
CursorCodeSwapped ==
  <<ESC, LBRACKET>> \o Dec(cx + 1) \o <<SEMICOLON>> \o Dec(cy + 1) \o <<CH_H>>

CursorCode == <<ESC, LBRACKET>> \o Dec(cy + 1) \o <<SEMICOLON>> \o Dec(cx + 1) \o <<CH_H>>

\* the append buffer editorRefreshScreen has built when it calls write
Frame ==
  LET ab1 == abAppend(<<>>, HIDE_CURSOR, 6)
      ab2 == abAppend(ab1, CURSOR_HOME, 3)
      ab3 == editorDrawRows(ab2)
      ab4 == abAppend(ab3, CursorCode, Len(CursorCode))
  IN  abAppend(ab4, SHOW_CURSOR, 6)


\* editorRefreshScreen writing each piece as it is produced, with no buffer
RefreshWritesUnbuffered ==
  <<HIDE_CURSOR, CURSOR_HOME, editorDrawRows(<<>>), CursorCode, SHOW_CURSOR>>

\* the write() calls of editorRefreshScreen
RefreshWrites == <<Frame>>

RefreshScreen ==
  /\ pc = "render"
  /\ wr' = RefreshWrites
  /\ pc' = "readkey"
  /\ UNCHANGED <<query, Evars, termVars, exitStatus, perr, fileVars, keyVars>>

(* ------------------------------ editorReadKey ------------------------- *)

\* the digit switch with the cases of 5 and 6 exchanged
DigitKeySwapped(d) ==
  CASE d = CH_0 + 1 -> HOME_KEY
    [] d = CH_0 + 3 -> DEL_KEY
    [] d = CH_0 + 4 -> END_KEY
    [] d = CH_0 + 5 -> PAGE_DOWN
    [] d = CH_0 + 6 -> PAGE_UP
    [] d = CH_0 + 7 -> HOME_KEY
    [] d = CH_0 + 8 -> END_KEY
    [] OTHER -> ESC

\* switch (seq[1]) after ESC [ digit ~
DigitKey(d) ==
  CASE d = CH_0 + 1 -> HOME_KEY
    [] d = CH_0 + 3 -> DEL_KEY
    [] d = CH_0 + 4 -> END_KEY
    [] d = CH_0 + 5 -> PAGE_UP
    [] d = CH_0 + 6 -> PAGE_DOWN
    [] d = CH_0 + 7 -> HOME_KEY
    [] d = CH_0 + 8 -> END_KEY
    [] OTHER -> ESC


\* the letter switch with the cases of C and D exchanged
LetterKeySwapped(l) ==
  CASE l = CH_A -> ARROW_UP
    [] l = CH_B -> ARROW_DOWN
    [] l = CH_C -> ARROW_LEFT
    [] l = CH_D -> ARROW_RIGHT
    [] l = CH_H -> HOME_KEY
    [] l = CH_F -> END_KEY
    [] OTHER -> ESC

\* switch (seq[1]) after ESC [
LetterKey(l) ==
  CASE l = CH_A -> ARROW_UP
    [] l = CH_B -> ARROW_DOWN
    [] l = CH_C -> ARROW_RIGHT
    [] l = CH_D -> ARROW_LEFT
    [] l = CH_H -> HOME_KEY
    [] l = CH_F -> END_KEY
    [] OTHER -> ESC

\* the switch after ESC O with the cases of the switch after ESC [: the arrow
\* letters are keys too
OKeyWithArrows(l) ==
  CASE l = CH_H -> HOME_KEY
    [] l = CH_F -> END_KEY
    [] OTHER -> LetterKey(l)

\* switch (seq[1]) after ESC O
OKey(l) ==
  CASE l = CH_H -> HOME_KEY
    [] l = CH_F -> END_KEY
    [] OTHER -> ESC


\* a third byte read after every ESC [, digit or not
NeedsThirdAlways(s0, s1) == s0 = LBRACKET

\* TRUE when, after seq[0] and seq[1], a third byte is read
NeedsThird(s0, s1) == s0 = LBRACKET /\ s1 >= CH_0 /\ s1 <= CH_9

\* the key returned once seq[0] and seq[1] are read and no third byte is
SeqKey(s0, s1) ==
  IF s0 = LBRACKET THEN LetterKey(s1)
  ELSE IF s0 = CH_O THEN OKey(s1)
  ELSE ESC

\* the key returned once seq[2] is read
ThirdKey(s1, s2) == IF s2 = TILDE THEN DigitKey(s1) ELSE ESC

\* the value returned for a read after the bytes seq that gives no byte, with
\* the last byte read in place of the escape byte
TimeoutKeyLastByte(seq) == seq[Len(seq)]

\* the value returned when a read after the bytes seq gives no byte
TimeoutKey(seq) == ESC

Return(k) ==
  /\ key' = k
  /\ pc' = "process"

\* the test with the check of errno left out: every -1 is fatal
IsFatalReadAnyFailure(r) == r \in {RD_ERROR, RD_EAGAIN}

\* nread == -1 && errno != EAGAIN
IsFatalRead(r) == r = RD_ERROR

\* the loop that waits for the first byte
ReadFirst(B) ==
  /\ pc = "readkey"
  /\ \E r \in B \cup ReadFailures :
       /\ lastRead' = r
       /\ IF r \in ReadFailures
          THEN /\ UNCHANGED <<key, consumed>>
               /\ IF IsFatalRead(r)
                  THEN Die("read", <<>>)
                  ELSE /\ wr' = <<>>
                       /\ UNCHANGED <<pc, exitStatus, perr>>
          ELSE /\ consumed' = <<r>>
               /\ wr' = <<>>
               /\ UNCHANGED <<exitStatus, perr>>
               /\ IF r = ESC
                  THEN pc' = "seq0" /\ UNCHANGED key
                  ELSE Return(r)
  /\ UNCHANGED <<query, Evars, termVars, fileVars>>

\* read(STDIN_FILENO, &seq[0], 1)
ReadSeq0(B) ==
  /\ pc = "seq0"
  /\ \E r \in B \cup ReadFailures :
       /\ lastRead' = r
       /\ IF r \in ReadFailures
          THEN Return(TimeoutKey(consumed)) /\ UNCHANGED consumed
          ELSE /\ consumed' = Append(consumed, r)
               /\ pc' = "seq1"
               /\ UNCHANGED key
  /\ wr' = <<>>
  /\ UNCHANGED <<query, Evars, termVars, exitStatus, perr, fileVars>>

\* read(STDIN_FILENO, &seq[1], 1) and the dispatch on seq[0], seq[1]
ReadSeq1(B) ==
  /\ pc = "seq1"
  /\ \E r \in B \cup ReadFailures :
       /\ lastRead' = r
       /\ IF r \in ReadFailures
          THEN Return(TimeoutKey(consumed)) /\ UNCHANGED consumed
          ELSE /\ consumed' = Append(consumed, r)
               /\ IF NeedsThird(consumed[2], r)
                  THEN pc' = "seq2" /\ UNCHANGED key
                  ELSE Return(SeqKey(consumed[2], r))
  /\ wr' = <<>>
  /\ UNCHANGED <<query, Evars, termVars, exitStatus, perr, fileVars>>

\* read(STDIN_FILENO, &seq[2], 1) and the switch on the digit
ReadSeq2(B) ==
  /\ pc = "seq2"
  /\ \E r \in B \cup ReadFailures :
       /\ lastRead' = r
       /\ IF r \in ReadFailures
          THEN Return(TimeoutKey(consumed)) /\ UNCHANGED consumed
          ELSE /\ consumed' = Append(consumed, r)
               /\ Return(ThirdKey(consumed[3], r))
  /\ wr' = <<>>
  /\ UNCHANGED <<query, Evars, termVars, exitStatus, perr, fileVars>>

(* ------------------- editorMoveCursor, editorProcessKeyPress ---------- *)

\* editorMoveCursor with the right and bottom edges tested one cell too far
editorMoveCursorPastEdge(k, x, y) ==
  CASE k = ARROW_LEFT -> IF x # 0 THEN <<x - 1, y>> ELSE <<x, y>>
    [] k = ARROW_RIGHT -> IF x # screencols THEN <<x + 1, y>> ELSE <<x, y>>
    [] k = ARROW_UP -> IF y # 0 THEN <<x, y - 1>> ELSE <<x, y>>
    [] k = ARROW_DOWN -> IF y # screenrows THEN <<x, y + 1>> ELSE <<x, y>>
    [] OTHER -> <<x, y>>

\* editorMoveCursor(k) on the cursor <<x, y>>
editorMoveCursor(k, x, y) ==
  CASE k = ARROW_LEFT -> IF x # 0 THEN <<x - 1, y>> ELSE <<x, y>>
    [] k = ARROW_RIGHT -> IF x # screencols - 1 THEN <<x + 1, y>> ELSE <<x, y>>
    [] k = ARROW_UP -> IF y # 0 THEN <<x, y - 1>> ELSE <<x, y>>
    [] k = ARROW_DOWN -> IF y # screenrows - 1 THEN <<x, y + 1>> ELSE <<x, y>>
    [] OTHER -> <<x, y>>

\* while (times--) editorMoveCursor(...) without the loop: one step
PageMoveOnce(k, x, y, times) ==
  IF times = 0 THEN <<x, y>> ELSE editorMoveCursor(k, x, y)

RECURSIVE PageMove(_, _, _, _)
\* while (times--) editorMoveCursor(...): the move applied times times (the
\* count is halved, and the first half computed before the second is
\* entered, so that a tall screen does not nest deeply)
PageMove(k, x, y, times) ==
  IF times = 0 THEN <<x, y>>
  ELSE IF times = 1 THEN editorMoveCursor(k, x, y)
  ELSE LET h == times \div 2
           m == PageMove(k, x, y, h)
       IN  IF Len(m) = 2 THEN PageMove(k, m[1], m[2], times - h) ELSE m

\* the switch with DEL_KEY falling into the case of HOME_KEY
KeyMoveDelAsHome(k, x, y) ==
  CASE k \in {HOME_KEY, DEL_KEY} -> <<0, y>>
    [] k = END_KEY -> <<screencols - 1, y>>
    [] k = PAGE_UP -> PageMove(ARROW_UP, x, y, screenrows)
    [] k = PAGE_DOWN -> PageMove(ARROW_DOWN, x, y, screenrows)
    [] k \in {ARROW_UP, ARROW_DOWN, ARROW_LEFT, ARROW_RIGHT} -> editorMoveCursor(k, x, y)
    [] OTHER -> <<x, y>>

\* the cursor after the switch of editorProcessKeyPress on key k
KeyMove(k, x, y) ==
  CASE k = HOME_KEY -> <<0, y>>
    [] k = END_KEY -> <<screencols - 1, y>>
    [] k = PAGE_UP -> PageMove(ARROW_UP, x, y, screenrows)
    [] k = PAGE_DOWN -> PageMove(ARROW_DOWN, x, y, screenrows)
    [] k \in {ARROW_UP, ARROW_DOWN, ARROW_LEFT, ARROW_RIGHT} -> editorMoveCursor(k, x, y)
    [] OTHER -> <<x, y>>

\* the loop of main going from editorProcessKeyPress straight to the next
\* editorReadKey
AfterKeyReadsAgain == "readkey"

\* the loop of main: after editorProcessKeyPress returns, the next iteration
\* starts with editorRefreshScreen
AfterKey == "render"

\* the switch of editorProcessKeyPress on the key editorReadKey returned; on
\* return the locals of the call (c, seq) are gone.  On a screen of 0 rows or
\* 0 columns no edge stops the cursor: MaxCursor caps how far it is followed.
ProcessKeyPress ==
  /\ pc = "process"
  /\ IF key = CTRL_KEY(CH_q)
     THEN /\ wr' = <<CLEAR_SCREEN, CURSOR_HOME>>
          /\ Exit(0)
          /\ UNCHANGED <<cx, cy, keyVars>>
     ELSE LET m == KeyMove(key, cx, cy)
          IN  /\ (screencols >= 1 \/ (m[1] <= MaxCursor /\ m[1] >= 0 - MaxCursor))
              /\ (screenrows >= 1 \/ (m[2] <= MaxCursor /\ m[2] >= 0 - MaxCursor))
              /\ cx' = m[1]
              /\ cy' = m[2]
              /\ wr' = <<>>
              /\ pc' = AfterKey
              /\ key' = 0 /\ consumed' = <<>> /\ lastRead' = RD_TIMEOUT
              /\ UNCHANGED exitStatus
  /\ UNCHANGED <<query, screenrows, screencols, numrows, row, termVars, perr, fileVars>>

(* ----------------------------- specifications ------------------------- *)
Next ==
  \/ EnableRawMode
  \/ InitEditor(SessIoctl, SessReplies)
  \/ OpenFile
  \/ GetLine
  \/ CloseFile
  \/ RefreshScreen
  \/ ReadFirst(SessBytes)
  \/ ReadSeq0(SessBytes)
  \/ ReadSeq1(SessBytes)
  \/ ReadSeq2(SessBytes)
  \/ ProcessKeyPress
  \/ DisableRawMode
  \/ Terminate

Spec == Init /\ [][Next]_vars

\* the key decoder alone, on every byte it distinguishes: the session is
\* Running with a screen of any size up to MaxDim
InitKey ==
  /\ pc = "render"
  /\ cx = 0 /\ cy = 0
  /\ screenrows \in 1..MaxDim /\ screencols \in 1..MaxDim
  /\ numrows = 0 /\ row = <<>>
  /\ orig_termios = TRUE /\ tty = "raw" /\ atexitFns = TRUE /\ restores = 0
  /\ exitStatus = -1 /\ perr = "" /\ wr = <<>>
  /\ hasArg = FALSE /\ fileText = <<>> /\ fpos = 0
  /\ key = 0 /\ consumed = <<>> /\ lastRead = RD_TIMEOUT
  /\ query = PrimaryQuery(screenrows, screencols)

NextKey ==
  \/ RefreshScreen
  \/ ReadFirst(KeyBytes)
  \/ ReadSeq0(KeyBytes)
  \/ ReadSeq1(KeyBytes)
  \/ ReadSeq2(KeyBytes)
  \/ ProcessKeyPress
  \/ DisableRawMode
  \/ Terminate

SpecKey == InitKey /\ [][NextKey]_vars

\* loading and first rendering of every file of up to MaxFileLen bytes, on a
\* screen of any size the window-size query can report
InitOpen ==
  /\ pc \in {"fopen", "render"}
  /\ cx = 0 /\ cy = 0
  /\ screenrows \in 0..MaxDim /\ screencols \in 1..MaxDim
  /\ numrows = 0 /\ row = <<>>
  /\ orig_termios = TRUE /\ tty = "raw" /\ atexitFns = TRUE /\ restores = 0
  /\ exitStatus = -1 /\ perr = "" /\ wr = <<>>
  /\ hasArg = (pc = "fopen")
  /\ fileText \in SeqsUpTo(FileBytes, MaxFileLen)
  /\ (~hasArg => fileText = <<>>)
  /\ fpos = 0
  /\ key = 0 /\ consumed = <<>> /\ lastRead = RD_TIMEOUT
  /\ query = PrimaryQuery(screenrows, screencols)

NextOpen ==
  \/ OpenFile
  \/ GetLine
  \/ CloseFile
  \/ RefreshScreen
  \/ DisableRawMode
  \/ Terminate

SpecOpen == InitOpen /\ [][NextOpen]_vars

\* the cursor keys on screens of small and large heights: a terminal of 1 to
\* MaxDim rows, the usual 24 rows, and a tall window of 200 rows
PageRows == (1..MaxDim) \cup {24, 200}
\* bytes of PageUp (ESC [ 5 ~), PageDown (ESC [ 6 ~), Down (ESC [ B), Right (ESC [ C)
PageBytes == {ESC, LBRACKET, TILDE, CH_0 + 5, CH_0 + 6, CH_B, CH_C}

InitPage ==
  /\ pc = "render"
  /\ cx = 0 /\ cy = 0
  /\ screenrows \in PageRows /\ screencols \in {1, MaxDim}
  /\ numrows = 0 /\ row = <<>>
  /\ orig_termios = TRUE /\ tty = "raw" /\ atexitFns = TRUE /\ restores = 0
  /\ exitStatus = -1 /\ perr = "" /\ wr = <<>>
  /\ hasArg = FALSE /\ fileText = <<>> /\ fpos = 0
  /\ key = 0 /\ consumed = <<>> /\ lastRead = RD_TIMEOUT
  /\ query = PrimaryQuery(screenrows, screencols)

NextPage ==
  \/ RefreshScreen
  \/ ReadFirst(PageBytes)
  \/ ReadSeq0(PageBytes)
  \/ ReadSeq1(PageBytes)
  \/ ReadSeq2(PageBytes)
  \/ ProcessKeyPress
  \/ DisableRawMode
  \/ Terminate

SpecPage == InitPage /\ [][NextPage]_vars

\* a query answered by the fallback: the terminal replied with the position
\* r;c of the far corner
FallbackQuery(r, c) ==
  Consulted(IoctlFailed, TRUE, TRUE,
            <<ESC, LBRACKET>> \o Dec(r) \o <<SEMICOLON>> \o Dec(c) \o <<CH_R>>)

\* loading and first rendering on narrow and wide screens: heights 0 to
\* MaxDim and 24, widths 0 to MaxDim, the length of the clear-screen code, and
\* the widths around the length of the welcome banner
RenderRows == (0..MaxDim) \cup {24}
RenderCols ==
  (0..MaxDim) \cup {Len(CLEAR_SCREEN)}
    \cup ((Len(WELCOME) - 1)..(Len(WELCOME) + 4)) \cup {80}
\* files whose line is, or holds, the code that clears the whole screen
ControlFiles == {CLEAR_SCREEN \o <<LF>>, <<CH_a>> \o CLEAR_SCREEN}

InitRender ==
  /\ pc \in {"fopen", "render"}
  /\ cx = 0 /\ cy = 0
  /\ screenrows \in RenderRows /\ screencols \in RenderCols
  /\ numrows = 0 /\ row = <<>>
  /\ orig_termios = TRUE /\ tty = "raw" /\ atexitFns = TRUE /\ restores = 0
  /\ exitStatus = -1 /\ perr = "" /\ wr = <<>>
  /\ hasArg = (pc = "fopen")
  /\ fileText \in SeqsUpTo(FileBytes, MaxFileLen) \cup ControlFiles
  /\ (~hasArg => fileText = <<>>)
  /\ fpos = 0
  /\ key = 0 /\ consumed = <<>> /\ lastRead = RD_TIMEOUT
  /\ query = IF screencols = 0 THEN FallbackQuery(screenrows, screencols)
             ELSE PrimaryQuery(screenrows, screencols)

NextRender ==
  \/ OpenFile
  \/ GetLine
  \/ CloseFile
  \/ RefreshScreen
  \/ DisableRawMode
  \/ Terminate

SpecRender == InitRender /\ [][NextRender]_vars

\* the key decoder with the scheduling read() gives it: with VMIN = 0 and
\* VTIME = 1 (lines 116-117) every read of a byte after the escape byte
\* returns within a tenth of a second, with a byte or without
SpecKeyLive ==
  /\ InitKey
  /\ [][NextKey]_vars
  /\ WF_vars(ReadSeq0(KeyBytes))
  /\ WF_vars(ReadSeq1(KeyBytes))
  /\ WF_vars(ReadSeq2(KeyBytes))

\* the window-size query alone, on every reply of up to MaxReply bytes made
\* of the bytes a cursor-position report is made of
SizeBytes == {ESC, LBRACKET, CH_0 + 1, SEMICOLON, CH_R}
SizeReplies == SeqsUpTo(SizeBytes, MaxReply)
\* ioctl fails, reports a height and no width, reports both, reports a
\* width and no height
SizeIoctl ==
  {IoctlFailed} \cup
  {[ok |-> TRUE, ws_row |-> rc[1], ws_col |-> rc[2]] :
     rc \in {<<1, 0>>, <<1, 1>>, <<0, 1>>}}

InitSize ==
  /\ pc = "init"
  /\ cx = 0 /\ cy = 0 /\ screenrows = 0 /\ screencols = 0
  /\ numrows = 0 /\ row = <<>>
  /\ orig_termios = TRUE /\ tty = "raw" /\ atexitFns = TRUE /\ restores = 0
  /\ exitStatus = -1 /\ perr = "" /\ wr = <<>>
  /\ hasArg = FALSE /\ fileText = <<>> /\ fpos = 0
  /\ key = 0 /\ consumed = <<>> /\ lastRead = RD_TIMEOUT
  /\ query = NoQuery

NextSize == InitEditor(SizeIoctl, SizeReplies)

SpecSize == InitSize /\ [][NextSize]_vars

(* ============================== properties ============================ *)
IsPrefix(p, s) == Len(p) <= Len(s) /\ SubSeq(s, 1, Len(p)) = p

\* C1: with screenrows >= 1 and screencols >= 1 the cursor stays inside the
\* screen, 0 <= cx <= screencols-1 and 0 <= cy <= screenrows-1, in every
\* reachable state, whatever keys have been processed.
CursorInScreen ==
  (screenrows >= 1 /\ screencols >= 1) =>
    /\ 0 <= cx /\ cx <= screencols - 1
    /\ 0 <= cy /\ cy <= screenrows - 1

\* a key has moved the cursor to the bottom-right cell of a screen of more
\* than one row and column
CursorAtFarCorner ==
  /\ pc = "render"
  /\ screenrows > 1 /\ screencols > 1
  /\ cx = screencols - 1 /\ cy = screenrows - 1

\* the keys section 4.2 assigns to ESC [ digit ~
DigitTable ==
  (CH_0 + 1 :> HOME_KEY) @@ (CH_0 + 3 :> DEL_KEY) @@ (CH_0 + 4 :> END_KEY) @@
  (CH_0 + 5 :> PAGE_UP) @@ (CH_0 + 6 :> PAGE_DOWN) @@ (CH_0 + 7 :> HOME_KEY) @@
  (CH_0 + 8 :> END_KEY)

\* the keys section 4.2 assigns to ESC [ letter
LetterTable ==
  (CH_A :> ARROW_UP) @@ (CH_B :> ARROW_DOWN) @@ (CH_C :> ARROW_RIGHT) @@
  (CH_D :> ARROW_LEFT) @@ (CH_H :> HOME_KEY) @@ (CH_F :> END_KEY)

\* editorReadKey has returned: on the input s it has read all of s and no
\* more and returns k; it stopped inside s only because a read gave no byte
DecodesAs(s, k) ==
  /\ IsPrefix(s, consumed) => (consumed = s /\ key = k)
  /\ (consumed # <<>> /\ IsPrefix(consumed, s) /\ consumed # s)
       => lastRead \in ReadFailures

\* C2: on the input ESC [ d ~ with d in {1,3,4,5,6,7,8} one call of
\* editorReadKey returns the key mapped to d and consumes exactly these 4
\* bytes, reading no byte after them.
DigitSequencesDecoded ==
  pc = "process" =>
    \A d \in DOMAIN DigitTable :
      DecodesAs(<<ESC, LBRACKET, d, TILDE>>, DigitTable[d])

\* the call has read ESC [ 5 ~ and returned
PageUpSequenceRead ==
  pc = "process" /\ consumed = <<ESC, LBRACKET, CH_0 + 5, TILDE>>

\* C3: on the input ESC [ L with L in {A,B,C,D,H,F} one call of editorReadKey
\* returns the key mapped to L and consumes exactly these 3 bytes, reading no
\* byte after them.
LetterSequencesDecoded ==
  pc = "process" =>
    \A l \in DOMAIN LetterTable :
      DecodesAs(<<ESC, LBRACKET, l>>, LetterTable[l])

\* the call has read ESC [ D and returned
ArrowLeftSequenceRead ==
  pc = "process" /\ consumed = <<ESC, LBRACKET, CH_D>>

\* C4: when editorReadKey has read ESC and the first or the second of the
\* next two reads gives no byte, the call returns the Escape key.
EscapeOnTimeout ==
  (/\ pc = "process"
   /\ consumed # <<>> /\ consumed[1] = ESC /\ Len(consumed) <= 2
   /\ lastRead \in ReadFailures)
    => key = ESC

\* ESC and one more byte were read and the read after them timed out
SecondReadTimedOut ==
  /\ pc = "process"
  /\ Len(consumed) = 2 /\ consumed[1] = ESC /\ consumed[2] = LBRACKET
  /\ lastRead = RD_TIMEOUT

\* every sequence sections 4.2 and 6 name, with its key
Recognized ==
  {<<<<ESC, LBRACKET, d, TILDE>>, DigitTable[d]>> : d \in DOMAIN DigitTable}
  \cup {<<<<ESC, LBRACKET, l>>, LetterTable[l]>> : l \in DOMAIN LetterTable}
  \cup {<<<<ESC, CH_O, CH_H>>, HOME_KEY>>, <<<<ESC, CH_O, CH_F>>, END_KEY>>}

\* C5 as stated: every call consumes exactly the bytes of the one event it
\* returns: a literal byte alone, a recognized sequence alone, or, for
\* Escape, the escape byte alone, so that no byte of a later event is
\* consumed by an earlier call.
EachCallConsumesOneEvent ==
  pc = "process" =>
    \/ key # ESC /\ key < ARROW_LEFT /\ consumed = <<key>>
    \/ \E r \in Recognized : consumed = r[1] /\ key = r[2]
    \/ key = ESC /\ consumed = <<ESC>>

\* C5 as amended: nothing is carried from one call to the next and a call
\* consumes 1 to 4 bytes: a literal byte alone, or exactly the bytes of a
\* recognized sequence, whose key it returns; every other input that starts
\* with ESC is returned as Escape together with all the bytes read after
\* the ESC, which are dropped.
ConsumedBytesPerCall ==
  /\ pc \in {"render", "readkey"} => consumed = <<>>
  /\ pc = "process" =>
       /\ Len(consumed) \in 1..4
       /\ consumed[1] # ESC => consumed = <<key>>
       /\ \A r \in Recognized :
            IsPrefix(r[1], consumed) => (consumed = r[1] /\ key = r[2])
       /\ key >= ARROW_LEFT => \E r \in Recognized : consumed = r[1] /\ key = r[2]
       /\ (consumed[1] = ESC /\ ~\E r \in Recognized : consumed = r[1]) => key = ESC

\* a call has returned Escape after reading, and dropping, two Ctrl+Q bytes
EscapeSwallowsQuit ==
  /\ pc = "process"
  /\ key = ESC
  /\ consumed = <<ESC, CTRL_KEY(CH_q), CTRL_KEY(CH_q)>>

IsSuffix(p, s) ==
  Len(p) <= Len(s) /\ SubSeq(s, Len(s) - Len(p) + 1, Len(s)) = p

\* C6: every call of editorRefreshScreen issues exactly one write, and that
\* write carries the frame from its first piece (hide cursor) to its last
\* (show cursor), whatever the number of rows and the screen size.
OneWritePerRefresh ==
  [][pc = "render" =>
       /\ Len(wr') = 1
       /\ IsPrefix(HIDE_CURSOR, wr'[1])
       /\ IsSuffix(SHOW_CURSOR, wr'[1])]_vars

\* a frame was written for a line buffer with more rows than the screen
FrameOfLongBuffer ==
  /\ pc = "readkey"
  /\ Len(wr) = 1
  /\ screenrows >= 1
  /\ numrows > screenrows

RECURSIVE SplitLines(_)
\* the lines of a text: each ends with its LF, the last one possibly without
SplitLines(t) ==
  IF t = <<>> THEN <<>>
  ELSE LET k == CHOOSE k \in 1..Len(t) :
                  /\ t[k] = LF \/ k = Len(t)
                  /\ \A j \in 1..(k - 1) : t[j] # LF
       IN  <<SubSeq(t, 1, k)>> \o SplitLines(From(t, k + 1))

\* the line without one trailing terminator: one CR LF pair, one LF or one CR
StripOne(line) ==
  LET n == Len(line)
  IN  IF n >= 2 /\ line[n - 1] = CR /\ line[n] = LF THEN SubSeq(line, 1, n - 2)
      ELSE IF n >= 1 /\ line[n] \in {CR, LF} THEN SubSeq(line, 1, n - 1)
      ELSE line

\* C7 as stated: each stored row is its line of the file with a single
\* trailing terminator removed, its size is the number of bytes left, and
\* the rows are in file order.
SingleTerminatorStripped ==
  /\ numrows = Len(row)
  /\ numrows <= Len(SplitLines(fileText))
  /\ \A i \in 1..numrows :
       /\ row[i].chars = StripOne(SplitLines(fileText)[i])
       /\ row[i].size = Len(row[i].chars)

\* C7 as amended: each stored row is its line of the file with all the
\* trailing LF and CR bytes removed and nothing else, its size is the number
\* of bytes left, and the rows are in file order, one per line once the file
\* is loaded.
TrailingTerminatorsStripped ==
  /\ numrows = Len(row)
  /\ numrows <= Len(SplitLines(fileText))
  /\ (pc = "render" /\ hasArg) => numrows = Len(SplitLines(fileText))
  /\ \A i \in 1..numrows :
       LET line == SplitLines(fileText)[i]
           r == row[i]
       IN  /\ r.size = Len(r.chars)
           /\ IsPrefix(r.chars, line)
           /\ \A j \in (r.size + 1)..Len(line) : line[j] \in {CR, LF}
           /\ r.size > 0 => r.chars[r.size] \notin {CR, LF}

\* the line "a" CR CR LF was stored as "a": two CR bytes were removed
TwoCarriageReturnsStripped ==
  /\ pc = "render"
  /\ fileText = <<CH_a, CR, CR, LF>>
  /\ numrows = 1
  /\ row[1].chars = <<CH_a>> /\ row[1].size = 1

QuitOnlyOnCtrlQ ==
  [][(pc \in Running /\ pc' \notin Running) =>
       /\ pc = "process" /\ key = 17
       /\ wr' = <<CLEAR_SCREEN, CURSOR_HOME>>
       /\ exitStatus' = 0]_vars

\* C9 as amended: the process leaves Running on the key Ctrl+Q, writing the
\* clear-screen and cursor-home codes once and calling exit(0), or on a read
\* error other than EAGAIN while editorReadKey waits for the first byte,
\* which is fatal (status 1), and on nothing else; after Ctrl+Q the process
\* ends with status 0 unless the restore of the terminal mode fails, and then
\* it ends with status 1.
LeavesRunningOnQuitOrReadError ==
  /\ [][(pc \in Running /\ pc' \notin Running) =>
          \/ /\ pc = "process" /\ key = 17
             /\ wr' = <<CLEAR_SCREEN, CURSOR_HOME>>
             /\ exitStatus' = 0 /\ pc' = "exiting" /\ perr' = perr
          \/ /\ pc = "readkey" /\ lastRead' = RD_ERROR
             /\ perr' = "read" /\ exitStatus' = 1 /\ pc' = "exiting"]_vars
  /\ [](pc = "exited" /\ key = 17 => exitStatus = IF perr = "" THEN 0 ELSE 1)

\* the process has ended with status 0 after Ctrl+Q
QuitWithStatusZero ==
  pc = "exited" /\ key = 17 /\ exitStatus = 0 /\ restores = 1

\* C10: every fatal error writes the clear-screen code and then the
\* cursor-home code and exits with status 1; after it the process never
\* enters (or goes on with) the main loop, and it ends with status 1.
FatalErrorExits ==
  /\ [][perr' # perr =>
          /\ Len(wr') >= 2
          /\ wr'[Len(wr') - 1] = CLEAR_SCREEN /\ wr'[Len(wr')] = CURSOR_HOME
          /\ exitStatus' = 1
          /\ pc' = "exiting"]_vars
  /\ [](perr # "" => (pc \in {"exiting", "exited"} /\ exitStatus = 1))

\* the window-size query failed after the fallback probe and the process has
\* ended
DimensionQueryFailed ==
  /\ pc = "exited"
  /\ perr = "getWindowSize"
  /\ exitStatus = 1
  /\ restores = 1

(* C11: on a screen of at least one row, processing a PageDown key event puts
   the cursor on the last row, screenrows - 1, from every starting row (the
   last row included, so a further PageDown leaves it there); processing a
   PageUp puts it on row 0 from every starting row (row 0 included); neither
   changes the cursor column. *)
PageKeysClampToEdge ==
  [][(pc = "process" /\ screenrows >= 1 /\ key \in {PAGE_UP, PAGE_DOWN})
       => /\ cx' = cx
          /\ cy' = IF key = PAGE_DOWN THEN screenrows - 1 ELSE 0]_vars

\* C11 witness: on the 200-row screen, with the cursor already on the last row
\* and off column 0, another PageDown has been read and is being processed
SecondPageDownOnTallScreen ==
  /\ pc = "process" /\ key = PAGE_DOWN
  /\ screenrows = 200 /\ cy = screenrows - 1 /\ cx > 0

(* --------------------------- reading a frame -------------------------- *)
\* editorRefreshScreen has just written a frame: wr[1]
Rendered == pc = "readkey" /\ Len(wr) = 1

\* the code that places the cursor on row cy and column cx (both 0-based)
PositionCode ==
  <<ESC, LBRACKET>> \o Dec(cy + 1) \o <<SEMICOLON>> \o Dec(cx + 1) \o <<CH_H>>

FrameHead == HIDE_CURSOR \o CURSOR_HOME
FrameTail == PositionCode \o SHOW_CURSOR

\* the frame between its head and its tail
RowPart(f) == SubSeq(f, Len(FrameHead) + 1, Len(f) - Len(FrameTail))

RECURSIVE FirstAt(_, _, _)
\* the first index from i on where p occurs in s, 0 when there is none
FirstAt(p, s, i) ==
  IF i + Len(p) - 1 > Len(s) THEN 0
  ELSE IF SubSeq(s, i, i + Len(p) - 1) = p THEN i
  ELSE FirstAt(p, s, i + 1)

\* the indices of s where p occurs
Occurrences(p, s) ==
  {i \in 1..(Len(s) - Len(p) + 1) : SubSeq(s, i, i + Len(p) - 1) = p}

Contains(p, s) == Occurrences(p, s) # {}

RECURSIVE RowLines(_)
\* the row lines of a row part: each is the text up to the next
\* erase-to-end-of-line code, with whether that code is there (it is missing
\* only from a last piece that does not end with it) and whether a line
\* break follows it
RowLines(s) ==
  IF s = <<>> THEN <<>>
  ELSE LET i == FirstAt(ERASE_LINE, s, 1)
       IN  IF i = 0
           THEN <<[text |-> s, erased |-> FALSE, brk |-> FALSE]>>
           ELSE LET rest == From(s, i + Len(ERASE_LINE))
                    b == IsPrefix(CRLF, rest)
                IN  <<[text |-> SubSeq(s, 1, i - 1), erased |-> TRUE, brk |-> b]>>
                      \o RowLines(IF b THEN From(rest, Len(CRLF) + 1) ELSE rest)

FrameRows == RowLines(RowPart(wr[1]))

\* the banner row as sections 4.4 and 6 describe it: the banner cut to the
\* screen width, after a padding of half the columns left, of which the first
\* is a tilde and the others are spaces
BannerText ==
  LET len == IF Len(WELCOME) > screencols THEN screencols ELSE Len(WELCOME)
      pad == (screencols - len) \div 2
  IN  (IF pad >= 1 THEN <<TILDE>> \o [i \in 1..(pad - 1) |-> CH_SPACE] ELSE <<>>)
        \o SubSeq(WELCOME, 1, len)

\* the screen rows (0-based) of the frame that show the banner
BannerRows == {y \in 0..(Len(FrameRows) - 1) : FrameRows[y + 1].text = BannerText}

(* C12 as stated: with an empty line buffer the frame shows the welcome
   banner on exactly one screen row, row screenrows / 3, and with a non-empty
   buffer on no row; the banner is cut to screencols and preceded by
   (screencols - length) / 2 columns of padding that start with a tilde, and
   padding and banner together are never wider than the screen. *)
BannerOnRowThird ==
  Rendered =>
    IF numrows = 0
    THEN /\ BannerRows = {screenrows \div 3}
         /\ Len(BannerText) <= screencols
    ELSE BannerRows = {}

\* C12 on the screens section 3 allows (both dimensions at least 1)
BannerOnRowThirdOfRealScreen ==
  (screenrows >= 1 /\ screencols >= 1) => BannerOnRowThird

(* C13: every frame editorRefreshScreen writes is, in this order, the
   hide-cursor code, the cursor-home code, screenrows row lines (each closed
   by its erase code), the cursor-position code and the show-cursor code; the
   position code carries cy + 1 and cx + 1 of the cursor at the time of the
   render; the hide code occurs once, at the start, and the show code that
   matches it is the end of the same frame. *)
FrameInOrder ==
  Rendered =>
    LET f == wr[1]
    IN  /\ Len(f) >= Len(FrameHead) + Len(FrameTail)
        /\ IsPrefix(FrameHead, f)
        /\ IsSuffix(FrameTail, f)
        /\ Len(FrameRows) = screenrows
        /\ \A y \in 1..Len(FrameRows) : FrameRows[y].erased
        /\ Occurrences(HIDE_CURSOR, f) = {1}
        /\ Occurrences(SHOW_CURSOR, f) = {Len(f) - Len(SHOW_CURSOR) + 1}

\* C13 witness: a frame was written with the cursor moved off the origin, on a
\* row and a column that differ, over a loaded row
FrameWithMovedCursor ==
  /\ Rendered
  /\ cy = 1 /\ cx = 2
  /\ numrows = 1

\* a read that gave no byte: read returned 0, or -1 with EAGAIN
NoData == {RD_TIMEOUT, RD_EAGAIN}

(* C14: while editorReadKey waits for the first byte of a key, a read that
   gives no byte is not an error (nothing is reported, the process does not
   exit) and produces no key event: the call stays in its loop and reads
   again; the call goes on or returns only with a byte it has read, a byte
   other than the escape byte returns at once, and after the escape byte the
   call returns eventually. *)
TimeoutIsRetried ==
  /\ [][(pc = "readkey" /\ lastRead' \in NoData)
         => /\ pc' = "readkey"
            /\ UNCHANGED <<key, consumed, perr, exitStatus, Evars>>]_vars
  /\ [][(pc = "readkey" /\ lastRead' \in KeyBytes \ {ESC}) => pc' = "process"]_vars
  /\ [](pc \in {"seq0", "seq1", "seq2", "process"}
          => (consumed # <<>> /\ consumed[1] \in KeyBytes))
  /\ (pc \in {"seq0", "seq1", "seq2"}) ~> (pc = "process")

\* C14 witness: the first read of a call gave no byte and the call is still
\* waiting, with no error reported and no key returned
WaitingAfterTimeout ==
  /\ pc = "readkey" /\ wr = <<>>
  /\ lastRead = RD_TIMEOUT
  /\ key = 0 /\ perr = "" /\ exitStatus = -1

\* the key events editorProcessKeyPress has a case for
HandledKeys ==
  {17, ARROW_LEFT, ARROW_RIGHT, ARROW_UP, ARROW_DOWN,
   HOME_KEY, END_KEY, PAGE_UP, PAGE_DOWN}

(* C15: processing a key event other than Ctrl+Q, the four arrows, Home, End,
   PageUp and PageDown (Delete, Escape and every literal byte among them)
   leaves the cursor column, the cursor row, the screen dimensions and the
   line buffer as they were. *)
OtherKeysChangeNothing ==
  [][(pc = "process" /\ key \notin HandledKeys)
       => UNCHANGED <<cx, cy, screenrows, screencols, numrows, row>>]_vars

\* C15 witness: Delete has been read and is being processed with the cursor
\* off the origin and a row loaded
DeleteBeingProcessed ==
  /\ pc = "process" /\ key = DEL_KEY
  /\ cx > 0 /\ cy > 0
  /\ numrows = 1

(* C16 as stated: whenever the session is Running, the screen dimensions
   obtained at startup, from the primary query or from the reply to the
   fallback probe, are both at least 1.  (That no later operation changes
   them is DimensionsFixedWhileRunning below.) *)
DimensionsAtLeastOne ==
  pc \in Running => (screenrows >= 1 /\ screencols >= 1)

\* the second part of C16: no step of a Running session, render or key event,
\* changes the screen dimensions
DimensionsFixedWhileRunning ==
  [][(pc \in Running) => UNCHANGED <<screenrows, screencols>>]_vars

\* the inputs that start with the escape byte and match no pattern of
\* sections 4.2 and 6, over the bytes the decoder distinguishes
UnmatchedInputs ==
  {<<ESC, LBRACKET, d, b>> : d \in Digits, b \in KeyBytes \ {TILDE}}
  \cup {<<ESC, LBRACKET, d, TILDE>> : d \in {CH_0, CH_0 + 2, CH_9}}
  \cup {<<ESC, LBRACKET, b>> :
          b \in KeyBytes \ (Digits \cup {CH_A, CH_B, CH_C, CH_D, CH_H, CH_F})}
  \cup {<<ESC, CH_O, b>> : b \in KeyBytes \ {CH_H, CH_F}}
  \cup {<<ESC, a, b>> : a \in KeyBytes \ {LBRACKET, CH_O}, b \in KeyBytes}

(* C17: on every input that starts with the escape byte and matches no
   recognized pattern (ESC [ digit and a byte other than '~'; ESC [ digit ~
   with digit 0, 2 or 9; ESC [ and a non-digit other than A, B, C, D, H, F;
   ESC O and a byte other than H, F; ESC and a byte other than '[' and 'O',
   then one more byte) editorReadKey reads all of the input and returns the
   Escape key; on ESC O H it returns Home and on ESC O F End. *)
UnmatchedSequencesReturnEscape ==
  pc = "process" =>
    /\ \A s \in UnmatchedInputs : DecodesAs(s, ESC)
    /\ DecodesAs(<<ESC, CH_O, CH_H>>, HOME_KEY)
    /\ DecodesAs(<<ESC, CH_O, CH_F>>, END_KEY)

\* C17 witness: ESC O A, an arrow letter after the wrong introducer, was read
\* and returned as Escape
ArrowLetterAfterO ==
  /\ pc = "process"
  /\ consumed = <<ESC, CH_O, CH_A>>
  /\ key = ESC

\* the first min(size, screencols) bytes of buffer row y (0-based)
RowShown(y) ==
  SubSeq(row[y + 1].chars, 1,
         IF row[y + 1].size < screencols THEN row[y + 1].size ELSE screencols)

\* the row lines of the frame are those section 4.4 describes: one per screen
\* row, showing the buffer row cut to the screen width or, past the buffer
\* and off the banner row, a single tilde; each closed by the erase code, and
\* each but the last followed by a line break
RowLinesAsDescribed ==
  /\ Len(FrameRows) = screenrows
  /\ \A y \in 0..(Len(FrameRows) - 1) :
       LET r == FrameRows[y + 1]
       IN  /\ y < numrows => r.text = RowShown(y)
           /\ (y >= numrows /\ ~(numrows = 0 /\ y = screenrows \div 3))
                => r.text = <<TILDE>>
           /\ r.erased
           /\ r.brk <=> (y < screenrows - 1)

(* C18 as stated: in every frame each screen row y shows the first
   min(size, screencols) bytes of buffer row y if y < numrows and otherwise,
   the banner row aside, a single tilde; each row is followed by the erase
   code; a line break follows every row but the last, exactly
   screenrows - 1 line breaks; and the frame never contains the code that
   clears the whole screen. *)
FrameNeverHoldsClearCode ==
  Rendered =>
    /\ RowLinesAsDescribed
    /\ Cardinality(Occurrences(CRLF, wr[1])) = screenrows - 1
    /\ ~Contains(CLEAR_SCREEN, wr[1])

(* C18: in every frame each screen row y shows the first
   min(size, screencols) bytes of buffer row y if y < numrows and otherwise,
   the banner row aside, a single tilde; each row is followed by the erase
   code; a line break follows every row but the last: screenrows - 1 line
   breaks on a screen of at least one row, none on a screen of no row; the
   renderer adds no clear-screen code of its own: the frame contains that
   code only inside the bytes of a buffer row that it shows. *)
ClearCodeOnlyFromRows ==
  Rendered =>
    /\ RowLinesAsDescribed
    /\ Cardinality(Occurrences(CRLF, wr[1]))
         = IF screenrows >= 1 THEN screenrows - 1 ELSE 0
    /\ \A i \in Occurrences(CLEAR_SCREEN, wr[1]) :
         \E y \in 0..(Len(FrameRows) - 1) :
           /\ y < numrows
           /\ Contains(CLEAR_SCREEN, FrameRows[y + 1].text)

\* C18 witness: the frame of a file whose line is the clear-screen code, on a
\* screen wide enough to show it and with rows left below the buffer
FrameShowsClearCodeOfFile ==
  /\ Rendered
  /\ Contains(CLEAR_SCREEN, wr[1])
  /\ numrows >= 1 /\ screenrows > numrows

(* --------------------------- the size query --------------------------- *)
\* initEditor has run its query
Queried == pc \notin {"start", "init"}

\* the step that ran the query wrote the far-corner move first
UsedFallback == Len(wr) >= 1 /\ wr[1] = PROBE_CORNER

\* the query did not end in die
QuerySucceeded == pc \in Running \cup {"fopen"}

\* the reply up to its first R, the R left out
ReplyBody(resp) ==
  LET H == {i \in 1..Len(resp) : resp[i] = CH_R}
  IN  IF H = {} THEN resp
      ELSE SubSeq(resp, 1, (CHOOSE i \in H : \A k \in H : i <= k) - 1)

RECURSIVE Number(_)
\* the number a sequence of digits writes
Number(ds) ==
  IF ds = <<>> THEN 0
  ELSE 10 * Number(SubSeq(ds, 1, Len(ds) - 1)) + (ds[Len(ds)] - CH_0)

\* s from index i on starts with a number that ends at index e: the longest
\* run of digits, which is not empty
NumberAt(s, i, e) ==
  /\ i <= e /\ e <= Len(s)
  /\ \A k \in i..e : s[k] \in Digits
  /\ (e = Len(s) \/ s[e + 1] \notin Digits)

\* the reply is accepted with rows r and columns c: before its first R (if
\* any) it is ESC [, a number, a semicolon, a number, and anything
AcceptedAs(resp, r, c) ==
  LET b == ReplyBody(resp)
  IN  /\ Len(b) >= 2 /\ b[1] = ESC /\ b[2] = LBRACKET
      /\ \E e1 \in 3..Len(b), e2 \in 3..Len(b) :
           /\ NumberAt(b, 3, e1)
           /\ e1 + 1 <= Len(b) /\ b[e1 + 1] = SEMICOLON
           /\ NumberAt(b, e1 + 2, e2)
           /\ r = Number(SubSeq(b, 3, e1))
           /\ c = Number(SubSeq(b, e1 + 2, e2))

\* the reply is exactly ESC [ rows ; cols R, rows and cols being digits
ExactReport(resp) ==
  \E i \in 3..Len(resp) :
    /\ resp[1] = ESC /\ resp[2] = LBRACKET
    /\ \A k \in 3..i : resp[k] \in Digits
    /\ i + 3 <= Len(resp)
    /\ resp[i + 1] = SEMICOLON
    /\ \A k \in (i + 2)..(Len(resp) - 1) : resp[k] \in Digits
    /\ resp[Len(resp)] = CH_R

\* the parts of C19 about when the fallback is used and how a failure ends:
\* the probe is written exactly when ioctl failed or reported no width, the
\* position query is written after the probe, and a query that fails ends in
\* die("getWindowSize") with status 1, never in a Running session
FallbackAndFailure ==
  Queried =>
    /\ UsedFallback <=> (~query.io.ok \/ query.io.ws_col = 0)
    /\ (UsedFallback /\ query.wok1) => (Len(wr) >= 2 /\ wr[2] = QUERY_CURSOR)
    /\ ~UsedFallback =>
         (QuerySucceeded /\ screenrows = query.io.ws_row
                         /\ screencols = query.io.ws_col)
    /\ ~QuerySucceeded =>
         (pc = "exiting" /\ perr = "getWindowSize" /\ exitStatus = 1)

(* C19 as stated: getWindowSize uses the fallback probe exactly when the
   primary query fails or reports zero columns; the fallback succeeds only
   for a reply of the form ESC [ rows ; cols R; when both strategies fail
   startup ends in the fatal error path and never reaches Running. *)
FallbackNeedsExactReport ==
  /\ FallbackAndFailure
  /\ (Queried /\ UsedFallback /\ QuerySucceeded) => ExactReport(query.resp)

(* C19: getWindowSize uses the fallback probe exactly when the primary query
   fails or reports zero columns; the fallback succeeds exactly when both
   writes complete and the bytes read before the first R, or before the
   read that gives no byte, are ESC [, a number, a semicolon and a number,
   whatever follows and whether or not an R ends them, and the two numbers
   become the dimensions; when both strategies fail startup ends
   in the fatal error path and never reaches Running. *)
FallbackAcceptsPrefix ==
  /\ FallbackAndFailure
  /\ (Queried /\ UsedFallback) =>
       (QuerySucceeded <=>
          /\ query.wok1 /\ query.wok2
          /\ \E r \in {screenrows}, c \in {screencols} :
               AcceptedAs(query.resp, r, c))

\* C19 witness: the fallback read a report that no R ends, and the session
\* is Running with the dimensions of that report
ReportWithoutTerminatorAccepted ==
  /\ pc = "render"
  /\ query.resp = <<ESC, LBRACKET, CH_0 + 1, SEMICOLON, CH_0 + 1>>
  /\ screenrows = 1 /\ screencols = 1

\* the steps of main follow each other in the order of its text: raw mode,
\* the size query, the file, and then render, read, process, render, ...
StepsInOrder ==
  /\ (pc' = "init" /\ pc # pc') => pc = "start"
  /\ (pc' = "fopen" /\ pc # pc') => pc = "init"
  /\ (pc' = "getline" /\ pc # pc') => pc = "fopen"
  /\ (pc' = "render" /\ pc # pc') => pc \in {"init", "getline", "process"}
  /\ (pc' = "readkey" /\ pc # pc') => pc = "render"
  /\ (pc' = "process" /\ pc # pc') => pc \in {"readkey", "seq0", "seq1", "seq2"}
  /\ (pc = "render" /\ pc # pc') => pc' = "readkey"
  /\ (pc = "process" /\ pc # pc') => (pc' = "render" \/ (key = 17 /\ pc' = "exiting"))

(* C20: the session runs in the order enable raw mode, query the dimensions,
   load the file if one is given, then the loop render, read one key, update
   the state: a key read starts only after a render, and one render only;
   after a key event other than quit the next step is a render; and the
   frame of a render shows the state as the key events so far have left it:
   the position code of the current cursor and the rows of the current
   buffer, none of which the render changes. *)
SessionRunsInOrder ==
  /\ [][StepsInOrder]_vars
  /\ [][(pc = "render") => UNCHANGED <<cx, cy, numrows, row>>]_vars
  /\ [](pc \in Running \cup {"fopen", "getline"}
          => (tty = "raw" /\ orig_termios /\ query # NoQuery))
  /\ [](pc \in Running => (fpos = Len(fileText) /\ numrows = Len(row)))
  /\ [](Rendered => (IsSuffix(FrameTail, wr[1]) /\ RowLinesAsDescribed))

\* C20 witness: a file was loaded, a key event moved the cursor, and the
\* frame of the new state has been written before the next key is read
RenderedAfterKeyEvent ==
  /\ Rendered
  /\ hasArg /\ numrows = 1
  /\ cx = 1 /\ cy = 0

====
